---- MODULE Spec2Model ----
(***************************************************************************)
(* Model of notion-sync: one-directional Notion -> local files -> git      *)
(* mirror.  The state is the remote page set, the SQLite record store      *)
(* (pages table and sync_log table of memory.db), the pages/ directory,    *)
(* the git index and HEAD tree, and the position of the running            *)
(* NotionSync.sync_now call.  Every step of sync_now that can raise is an  *)
(* action with a normal outcome and its exceptional outcomes.              *)
(***************************************************************************)
EXTENDS Integers, Sequences, FiniteSets, TLC

\* ------------------------------------------------------------------ bounds
MaxPages == 2      \* largest number of pages the remote database holds
MaxRuns == 2       \* sync_now invocations in one behaviour
MaxFaults == 1     \* environment faults (I/O, network, git) in one behaviour
MaxOps == 2        \* direct calls of record-store operations in one behaviour
MaxResponses == 3  \* responses of one paginated request loop

\* ------------------------------------------------------- program constants
TitleMax == 50     \* safe_title[:50]

\* ------------------------------------------------------------------ values
\* Python None, and a value v of Python type ty
None == [py |-> "NoneType"]

\* A missing page, row or file
Absent == [absent |-> TRUE]

\* The outcome of a call: the value it returns or the exception it raises
Ret(v) == [ret |-> v]

Exc(e) == [exc |-> e]

IsExc(x) == "exc" \in DOMAIN x

\* Page identifiers are written as numbers in base 2; page.id[:8] keeps the
\* leading digits and drops the last one, so that two identifiers can share
\* their prefix (2 and 3) or not (3 and 4).
IdUniverse == 2..(MaxPages + 1)

\* page.id[:8]
IdPrefix(id) == id \div 2

\* Characters of titles.
Alnum == {"a", "b"}
Kept == {" ", "-", "_"}
Untitled == <<"u", "n", "t", "i", "t", "l", "e", "d">>
TitleA == <<"a">>

TitleB == <<" ", "/">>

\* The three shapes of "last_edited_time" in a query result: absent, an ISO
\* instant whose fraction of a second is zero, one whose fraction is not.
StampKinds == {"absent", "whole", "frac"}

\* str.strip(): drop leading and trailing blanks
RECURSIVE LStrip(_)
LStrip(s) == IF s # <<>> /\ Head(s) = " " THEN LStrip(Tail(s)) ELSE s

RECURSIVE RStrip(_)
RStrip(s) ==
  IF s # <<>> /\ s[Len(s)] = " " THEN RStrip(SubSeq(s, 1, Len(s) - 1)) ELSE s

Strip(s) == RStrip(LStrip(s))

Min(a, b) == IF a < b THEN a ELSE b

\* safe_title of _write_page_file
SafeTitle(title) ==
  LET kept == SelectSeq(title, LAMBDA c : c \in Alnum \/ c \in Kept)
      stripped == Strip(kept)
      cut == SubSeq(stripped, 1, Min(TitleMax, Len(stripped)))
  IN IF cut = <<>> THEN Untitled ELSE cut

\* filename = f"{safe_title}_{page.id[:8]}.md"
Filename(page) == <<SafeTitle(page.title), IdPrefix(page.id)>>

\* SyncDatabase.compute_hash: SHA-256 is taken to be collision free
compute_hash(content) == <<"sha256", content>>

VARIABLES
  remote,      \* the Notion database: id -> page data or Absent
  store,       \* pages table of memory.db: id -> row or Absent
  log,         \* sync_log table of memory.db, in insertion order
  dbVer,       \* number of committed writes to memory.db (its content)
  files,       \* pages/ directory: filename -> file content
  index,       \* git index: [files, db]
  head,        \* tree of the HEAD commit: [files, db]
  commits,     \* messages of the commits made by commit_sync
  pc,          \* position of the sync_now call in progress ("idle": none)
  run,         \* locals of the sync_now call in progress
  results,     \* outcome of every finished sync_now call
  faultsLeft   \* environment faults still to happen

vars == <<remote, store, log, dbVer, files, index, head, commits, pc, run,
          results, faultsLeft>>


\* ------------------------------------------------------------- timestamps
\* A datetime is [tz, frac, t]: tz "aware" or "naive", frac whether its
\* microsecond field is not zero, t the instant.  Instants of run number n:
\* 2n while the listing is parsed, 2n+1 from the page loop on.
utcnow(t) == [tz |-> "naive", frac |-> TRUE, t |-> t]

NowList(r) == 2 * r.no

NowLoop(r) == 2 * r.no + 1

\* last_edited of NotionClient._parse_page: fromisoformat of the instant with
\* "Z" replaced by "+00:00" (an aware datetime), utcnow() when it is absent.
ParseLastEdited(data, now) ==
  IF data.stamp = "absent" THEN utcnow(now)
  ELSE [tz |-> "aware", frac |-> (data.stamp = "frac"), t |-> data.edited]

\* NotionClient._parse_page
ParsePage(id, data, now) ==
  [id |-> id, title |-> data.title, parent_id |-> "db",
   last_edited |-> ParseLastEdited(data, now)]

\* A TIMESTAMP column holds datetime.isoformat(" "): the text keeps the
\* fraction only when it is not zero and the offset only when the datetime is
\* aware, which is the information of [tz, frac, t] itself.  Reading the column
\* back (detect_types=PARSE_DECLTYPES) splits the text at "." and then the
\* part before it at ":"; an offset after a fraction is cut off, an offset
\* right after the seconds makes the conversion raise ValueError.
ConvertTimestamp(text) ==
  IF text.tz = "aware" /\ ~text.frac THEN Exc("ValueError")
  ELSE Ret([tz |-> "naive", frac |-> text.frac, t |-> text.t])

\* SyncDatabase._row_to_record (through get_page): the row as a PageRecord,
\* or the exception of a column conversion
RowToRecord(row) ==
  IF IsExc(ConvertTimestamp(row.last_edited)) THEN Exc("ValueError")
  ELSE IF IsExc(ConvertTimestamp(row.last_synced)) THEN Exc("ValueError")
  ELSE Ret([row EXCEPT !.last_edited = ConvertTimestamp(row.last_edited).ret,
                       !.last_synced = ConvertTimestamp(row.last_synced).ret])

\* datetime.__gt__: comparing an aware with a naive datetime raises TypeError
DatetimeGt(a, b) ==
  IF a.tz # b.tz THEN Exc("TypeError") ELSE Ret(a.t > b.t)

\* SyncDatabase.needs_sync on the row stored for the page (Absent: none):
\* the boolean it returns or the exception it raises
needs_sync(row, last_edited, content_hash) ==
  IF row = Absent THEN Ret(TRUE)
  ELSE LET existing == RowToRecord(row) IN
       IF IsExc(existing) THEN existing
       ELSE IF existing.ret.content_hash # content_hash THEN Ret(TRUE)
       ELSE DatetimeGt(last_edited, existing.ret.last_synced)

\* SyncDatabase.get_last_sync_time: MAX(sync_time) over the 'success' rows.
\* The aggregate column has no declared type, so no converter runs and the
\* value is the text itself, a Python str; None when there is no such row.
SuccessTimes(lg) == {lg[k].sync_time : k \in {j \in 1..Len(lg) : lg[j].status = "success"}}

\* A variant of get_last_sync_time without WHERE status = 'success'
LastLogTime(lg) ==
  IF lg = <<>> THEN None
  ELSE [py |-> "str",
        t |-> CHOOSE m \in {lg[k].sync_time : k \in 1..Len(lg)} :
                \A k \in 1..Len(lg) : lg[k].sync_time <= m]

\* A variant of get_last_sync_time that also counts 'partial' entries
\* (WHERE status IN ('success', 'partial'))
LastCompletedTime(lg) ==
  LET done == {lg[k].sync_time :
                 k \in {j \in 1..Len(lg) : lg[j].status \in {"success", "partial"}}}
  IN IF done = {} THEN None
     ELSE [py |-> "str", t |-> CHOOSE m \in done : \A x \in done : x <= m]

\* SyncDatabase.get_last_sync_time: MAX(sync_time) WHERE status = 'success',
\* the text of the column
get_last_sync_time(lg) ==
  IF SuccessTimes(lg) = {} THEN None
  ELSE [py |-> "str",
        t |-> CHOOSE m \in SuccessTimes(lg) : \A x \in SuccessTimes(lg) : x <= m]

\* ------------------------------------------------------------------- git
\* GitOperations.has_changes: staged changes, unstaged changes of tracked
\* paths, or untracked files under pages/
has_changes(idx, hd, fl, dv) ==
  \/ idx # hd
  \/ \E f \in DOMAIN idx.files : f \notin DOMAIN fl \/ fl[f] # idx.files[f]
  \/ idx.db # Absent /\ idx.db # dv
  \/ \E f \in DOMAIN fl : f \notin DOMAIN idx.files

\* GitOperations.stage_all: git add .
stage_all(fl, dv) == [files |-> fl, db |-> dv]

\* The content of memory.db after dv committed writes
DbFile(dv) == [ver |-> dv]

\* commit_msg of commit_sync
CommitMsg(pages_changed, direction, now) ==
  [timestamp |-> now, pages |-> pages_changed, direction |-> direction]


\* ----------------------------------------------------------- sync_now
\* Locals of one sync_now call (with those of _pull_from_notion), and what
\* the call has done so far: faults lists the exceptions raised in it, in
\* order; injected counts those that came from the environment; allNeed says
\* that needs_sync was true of every candidate reached so far.
NewRun(no) ==
  [no |-> no, push |-> "unread", since |-> None, pages |-> <<>>, i |-> 0,
   content |-> "", content_hash |-> <<>>,
   pages_synced |-> 0, pages_skipped |-> 0, errors |-> <<>>,
   commit_hash |-> None, exc |-> "",
   faults |-> <<>>, injected |-> 0, listed |-> FALSE, allNeed |-> TRUE,
   changesSeen |-> "unchecked", commitCalled |-> FALSE, pushCalled |-> FALSE,
   logCalls |-> 0, logStart |-> Len(log), commitsStart |-> Len(commits)]

\* An exception raised in the call
Raised(r, tag, env) ==
  [r EXCEPT !.faults = Append(@, tag), !.injected = @ + (IF env THEN 1 ELSE 0)]

\* except Exception as e (line 172): the exception reaches the handler of
\* sync_now
Escapes(r, tag, env) == [Raised(r, tag, env) EXCEPT !.exc = tag]

\* A variant of PageError that swallows the exception of the page without
\* recording it
PageErrorSilent(r, tag, env) == Raised(r, tag, env)

\* except Exception as e (line 240): the error is recorded for the page
PageError(r, tag, env) ==
  [Raised(r, tag, env) EXCEPT
     !.errors = Append(@, [kind |-> "page", id |-> r.pages[r.i].id])]

\* for page in pages: the position after the page at r.i
NextPage(r) == [r EXCEPT !.i = @ + 1]

\* A variant of LoopPc that leaves the loop after the first candidate
LoopPcFirstOnly(r) == "changes"

LoopPc(r) == IF r.i < Len(r.pages) THEN "fetch" ELSE "changes"

\* The candidates of a listing without filter, in the order of the ids
RECURSIVE Listing(_, _, _)
Listing(rem, ids, now) ==
  IF ids = {} THEN <<>>
  ELSE LET id == CHOOSE x \in ids : \A y \in ids : x <= y IN
       <<ParsePage(id, rem[id], now)>> \o Listing(rem, ids \ {id}, now)

\* get_database_pages appends every result of every response page: a page
\* that the API reports twice is a candidate twice (at most MaxPages
\* candidates in all)
Responses(pages) ==
  IF pages = <<>> \/ Len(pages) >= MaxPages THEN {pages}
  ELSE {pages, Append(pages, pages[1])}

RemoteIds(rem) == {id \in IdUniverse : rem[id] # Absent}

\* The candidate at r.i needs syncing: needs_sync returns true for it
Needs(r, st, rem) ==
  needs_sync(st[r.pages[r.i].id], r.pages[r.i].last_edited,
             compute_hash(rem[r.pages[r.i].id].content)) = Ret(TRUE)

Seen(r, st, rem) == [r EXCEPT !.allNeed = @ /\ Needs(r, st, rem)]

\* An environment fault happens now
Fault == faultsLeft > 0 /\ faultsLeft' = faultsLeft - 1

NoFault == UNCHANGED faultsLeft

Disk == <<store, log, dbVer, files>>

Git == <<index, head, commits>>

\* sync_now is called (lines 113-127).  The value of the parameter push is
\* drawn where line 145 reads it.
StartRun ==
  /\ pc = "idle"
  /\ Len(results) < MaxRuns
  /\ run' = NewRun(Len(results) + 1)
  /\ pc' = "since"
  /\ UNCHANGED <<remote, Disk, Git, results, faultsLeft>>

\* A variant of GetLastSyncTime that takes a failed read for "never synced"
GetLastSyncTimeOrNever ==
  /\ pc = "since"
  /\ \/ /\ NoFault
        /\ run' = [run EXCEPT !.since = get_last_sync_time(log)]
        /\ pc' = "list"
     \/ /\ Fault
        /\ run' = [Raised(run, "since", TRUE) EXCEPT !.since = None]
        /\ pc' = "list"
  /\ UNCHANGED <<remote, Disk, Git, results>>

\* _pull_from_notion, line 200: last_sync = self.db.get_last_sync_time()
GetLastSyncTime ==
  /\ pc = "since"
  /\ \/ /\ NoFault
        /\ run' = [run EXCEPT !.since = get_last_sync_time(log)]
        /\ pc' = "list"
     \/ /\ Fault
        /\ run' = Escapes(run, "since", TRUE)
        /\ pc' = "hlog"
  /\ UNCHANGED <<remote, Disk, Git, results>>

\* _pull_from_notion, lines 204-209, with NotionClient.get_database_pages:
\* a since that is not None has its isoformat() called, which a str does not
\* have (AttributeError, not caught at line 207); otherwise the whole database
\* is queried, and the query fails with NotionClientError (caught) or with an
\* exception of the transport (not caught)
GetDatabasePages ==
  /\ pc = "list"
  /\ \/ /\ run.since # None
        /\ NoFault
        /\ run' = Escapes(run, "AttributeError", FALSE)
        /\ pc' = "hlog"
     \/ /\ run.since = None
        /\ NoFault
        /\ \E pages \in Responses(Listing(remote, RemoteIds(remote), NowList(run))) :
           /\ run' = [run EXCEPT !.pages = pages, !.i = 1, !.listed = TRUE]
           /\ pc' = IF pages = <<>> THEN "changes" ELSE "fetch"
     \/ /\ run.since = None
        /\ Fault
        /\ run' = [Raised(run, "NotionClientError", TRUE) EXCEPT
                     !.errors = Append(@, [kind |-> "list", id |-> 0])]
        /\ pc' = "changes"
     \/ /\ run.since = None
        /\ Fault
        /\ run' = Escapes(run, "list", TRUE)
        /\ pc' = "hlog"
  /\ UNCHANGED <<remote, Disk, Git, results>>

\* lines 214-215: get_page_content and compute_hash
FetchContent ==
  /\ pc = "fetch"
  /\ \/ /\ NoFault
        /\ run' = [run EXCEPT
                     !.content = remote[run.pages[run.i].id].content,
                     !.content_hash =
                        compute_hash(remote[run.pages[run.i].id].content)]
        /\ pc' = "check"
     \/ /\ Fault
        /\ run' = NextPage(PageError(Seen(run, store, remote), "fetch", TRUE))
        /\ pc' = LoopPc(run)
  /\ UNCHANGED <<remote, Disk, Git, results>>

\* A variant of CheckNeedsSync that stamps the record of a skipped page as
\* synced now
CheckNeedsSyncTouches ==
  /\ pc = "check"
  /\ LET page == run.pages[run.i]
         need == needs_sync(store[page.id], page.last_edited, run.content_hash)
     IN
     \/ /\ NoFault
        /\ IsExc(need)
        /\ run' = NextPage(PageError(Seen(run, store, remote), need.exc, FALSE))
        /\ pc' = LoopPc(run)
        /\ UNCHANGED <<store, dbVer>>
     \/ /\ NoFault
        /\ need = Ret(FALSE)
        /\ run' = NextPage([Seen(run, store, remote) EXCEPT !.pages_skipped = @ + 1])
        /\ pc' = LoopPc(run)
        /\ store' = [store EXCEPT ![page.id].last_synced = utcnow(NowLoop(run))]
        /\ dbVer' = dbVer + 1
     \/ /\ NoFault
        /\ need = Ret(TRUE)
        /\ run' = run
        /\ pc' = "write"
        /\ UNCHANGED <<store, dbVer>>
     \/ /\ Fault
        /\ run' = NextPage(PageError(Seen(run, store, remote), "check", TRUE))
        /\ pc' = LoopPc(run)
        /\ UNCHANGED <<store, dbVer>>
  /\ UNCHANGED <<remote, log, files, Git, results>>

\* lines 218-220: needs_sync
CheckNeedsSync ==
  /\ pc = "check"
  /\ LET page == run.pages[run.i]
         need == needs_sync(store[page.id], page.last_edited, run.content_hash)
     IN
     \/ /\ NoFault
        /\ IsExc(need)
        /\ run' = NextPage(PageError(Seen(run, store, remote), need.exc, FALSE))
        /\ pc' = LoopPc(run)
     \/ /\ NoFault
        /\ need = Ret(FALSE)
        /\ run' = NextPage([Seen(run, store, remote) EXCEPT !.pages_skipped = @ + 1])
        /\ pc' = LoopPc(run)
     \/ /\ NoFault
        /\ need = Ret(TRUE)
        /\ run' = run
        /\ pc' = "write"
     \/ /\ Fault
        /\ run' = NextPage(PageError(Seen(run, store, remote), "check", TRUE))
        /\ pc' = LoopPc(run)
  /\ UNCHANGED <<remote, Disk, Git, results>>


\* The file _write_page_file writes: the frontmatter and the content
PageFile(page, content) ==
  [notion_id |-> page.id, title |-> page.title,
   last_edited |-> page.last_edited, body |-> content]

\* filepath.write_text
write_text(fl, name, text) ==
  [f \in DOMAIN fl \cup {name} |-> IF f = name THEN text ELSE fl[f]]

\* line 223: _write_page_file (lines 246-278)
WritePageFile ==
  /\ pc = "write"
  /\ \/ /\ NoFault
        /\ files' = write_text(files, Filename(run.pages[run.i]),
                               PageFile(run.pages[run.i], run.content))
        /\ run' = run
        /\ pc' = "upsert"
     \/ /\ Fault
        /\ files' = files
        /\ run' = NextPage(PageError(run, "write", TRUE))
        /\ pc' = LoopPc(run)
  /\ UNCHANGED <<remote, store, log, dbVer, Git, results>>

\* A variant of PageRecord that marks the record as still to be confirmed
PageRecordPending(page, content_hash, now) ==
  [notion_id |-> page.id, title |-> page.title, parent_id |-> page.parent_id,
   content_hash |-> content_hash, last_edited |-> page.last_edited,
   last_synced |-> utcnow(now), status |-> "pending"]

\* lines 226-234: the PageRecord of a synced page
PageRecord(page, content_hash, now) ==
  [notion_id |-> page.id, title |-> page.title, parent_id |-> page.parent_id,
   content_hash |-> content_hash, last_edited |-> page.last_edited,
   last_synced |-> utcnow(now), status |-> "synced"]

\* A variant of upsert_page without the ON CONFLICT clause's update: an
\* existing row is kept (INSERT OR IGNORE)
InsertOrIgnore(st, rec) ==
  IF st[rec.notion_id] = Absent THEN [st EXCEPT ![rec.notion_id] = rec] ELSE st

\* SyncDatabase.upsert_page
upsert_page(st, rec) == [st EXCEPT ![rec.notion_id] = rec]

\* lines 226-238: upsert_page and result["synced"] += 1
UpsertPage ==
  /\ pc = "upsert"
  /\ \/ /\ NoFault
        /\ store' = upsert_page(store, PageRecord(run.pages[run.i],
                                                  run.content_hash, NowLoop(run)))
        /\ dbVer' = dbVer + 1
        /\ run' = NextPage([run EXCEPT !.pages_synced = @ + 1])
        /\ pc' = LoopPc(run)
     \/ /\ Fault
        /\ UNCHANGED <<store, dbVer>>
        /\ run' = NextPage(PageError(run, "upsert", TRUE))
        /\ pc' = LoopPc(run)
  /\ UNCHANGED <<remote, log, files, Git, results>>

\* A variant of HasChanges that goes on to commit_sync whatever has_changes
\* returned
HasChangesIgnored ==
  /\ pc = "changes"
  /\ \/ /\ NoFault
        /\ LET changed == has_changes(index, head, files, DbFile(dbVer)) IN
           /\ run' = [run EXCEPT !.changesSeen = IF changed THEN "yes" ELSE "no"]
           /\ pc' = "commit"
     \/ /\ Fault
        /\ run' = Escapes(run, "changes", TRUE)
        /\ pc' = "hlog"
  /\ UNCHANGED <<remote, Disk, Git, results>>

\* line 138: if self.git.has_changes()
HasChanges ==
  /\ pc = "changes"
  /\ \/ /\ NoFault
        /\ LET changed == has_changes(index, head, files, DbFile(dbVer)) IN
           /\ run' = [run EXCEPT !.changesSeen = IF changed THEN "yes" ELSE "no"]
           /\ pc' = IF changed THEN "commit" ELSE "log"
     \/ /\ Fault
        /\ run' = Escapes(run, "changes", TRUE)
        /\ pc' = "hlog"
  /\ UNCHANGED <<remote, Disk, Git, results>>

\* The identifier of the commit that HEAD is after n commits of commit_sync
CommitId(n) == [py |-> "str", id |-> n]

\* A variant of AfterCommit that pushes whatever the parameter push says
AfterCommitAlwaysPush(push) == "push"

\* line 145: if push
AfterCommit(push) == IF push THEN "push" ELSE "log"

\* lines 139-145: GitOperations.commit_sync (git_ops.py lines 151-187):
\* stage_all, has_changes, git commit, get_head_commit, each of which can
\* fail; then if push
CommitSync ==
  /\ pc = "commit"
  /\ LET called == [run EXCEPT !.commitCalled = TRUE]
         staged == stage_all(files, DbFile(dbVer))
         msg == CommitMsg(run.pages_synced, "pull", NowLoop(run))
     IN
     \/ /\ NoFault
        /\ index' = staged
        /\ IF has_changes(staged, head, files, DbFile(dbVer))
           THEN /\ head' = staged
                /\ commits' = Append(commits, msg)
           ELSE UNCHANGED <<head, commits>>
        /\ \E push \in BOOLEAN :
             /\ run' = [called EXCEPT !.commit_hash = CommitId(Len(commits')),
                                      !.push = IF push THEN "True" ELSE "False"]
             /\ pc' = AfterCommit(push)
     \/ /\ Fault
        /\ UNCHANGED Git
        /\ run' = Escapes(called, "stage", TRUE)
        /\ pc' = "hlog"
     \/ /\ Fault
        /\ index' = staged
        /\ UNCHANGED <<head, commits>>
        /\ run' = Escapes(called, "commit", TRUE)
        /\ pc' = "hlog"
     \/ /\ Fault
        /\ index' = staged
        /\ IF has_changes(staged, head, files, DbFile(dbVer))
           THEN /\ head' = staged
                /\ commits' = Append(commits, msg)
           ELSE UNCHANGED <<head, commits>>
        /\ run' = Escapes(called, "revparse", TRUE)
        /\ pc' = "hlog"
  /\ UNCHANGED <<remote, Disk, results>>

\* A variant of Push without the try/except of lines 146-150: a
\* GitOperationsError of push reaches the handler of sync_now
PushUncaught ==
  /\ pc = "push"
  /\ LET called == [run EXCEPT !.pushCalled = TRUE] IN
     \/ /\ NoFault
        /\ run' = called
        /\ pc' = "log"
     \/ /\ Fault
        /\ run' = Escapes(called, "GitOperationsError", TRUE)
        /\ pc' = "hlog"
     \/ /\ Fault
        /\ run' = Escapes(called, "push", TRUE)
        /\ pc' = "hlog"
  /\ UNCHANGED <<remote, Disk, Git, results>>

\* lines 145-150: self.git.push(), whose GitOperationsError is recorded
Push ==
  /\ pc = "push"
  /\ LET called == [run EXCEPT !.pushCalled = TRUE] IN
     \/ /\ NoFault
        /\ run' = called
        /\ pc' = "log"
     \/ /\ Fault
        /\ run' = [Raised(called, "GitOperationsError", TRUE) EXCEPT
                     !.errors = Append(@, [kind |-> "push", id |-> 0])]
        /\ pc' = "log"
     \/ /\ Fault
        /\ run' = Escapes(called, "push", TRUE)
        /\ pc' = "hlog"
  /\ UNCHANGED <<remote, Disk, Git, results>>

\* A variant of LogStatus that ignores the error list
LogStatusAlwaysSuccess(errors) == "success"

\* line 158: status of the log entry of a run that reached line 155
LogStatus(errors) == IF errors = <<>> THEN "success" ELSE "partial"

\* SyncDatabase.log_sync: one row appended to sync_log, sync_time being the
\* CURRENT_TIMESTAMP default
log_sync(lg, now, pages_synced, direction, status, message) ==
  Append(lg, [sync_time |-> now, pages_synced |-> pages_synced,
              direction |-> direction, status |-> status, message |-> message])

\* The SyncResult of lines 162-170 and of lines 180-188
SyncResult(success, pages_synced, pages_skipped, errors, commit_hash, now) ==
  [success |-> success, direction |-> "pull", pages_synced |-> pages_synced,
   pages_skipped |-> pages_skipped, errors |-> errors,
   commit_hash |-> commit_hash, timestamp |-> now]

\* What is kept of a finished call: whether it returned, what it returned,
\* its final locals, and the lengths of sync_log and of the history then
Returned(r, result, lg) ==
  [returned |-> TRUE, result |-> result, run |-> r, logEnd |-> Len(lg),
   commitsEnd |-> Len(commits)]

RaisedOut(r, lg) ==
  [returned |-> FALSE, result |-> None, run |-> r, logEnd |-> Len(lg),
   commitsEnd |-> Len(commits)]

\* lines 154-170: log_sync and return SyncResult
LogSync ==
  /\ pc = "log"
  /\ LET called == [run EXCEPT !.logCalls = @ + 1] IN
     \/ /\ NoFault
        /\ log' = log_sync(log, NowLoop(run), run.pages_synced, "pull",
                           LogStatus(run.errors), run.errors)
        /\ dbVer' = dbVer + 1
        /\ run' = called
        /\ results' = Append(results,
              Returned(called,
                SyncResult(Len(run.errors) = 0, run.pages_synced,
                           run.pages_skipped, run.errors, run.commit_hash,
                           NowLoop(run)), log'))
        /\ pc' = "idle"
     \/ /\ Fault
        /\ run' = Escapes(called, "log", TRUE)
        /\ pc' = "hlog"
        /\ UNCHANGED <<log, dbVer, results>>
  /\ UNCHANGED <<remote, store, files, Git>>

\* A variant of HandlerLog that returns the failed result without logging
HandlerLogSilent ==
  /\ pc = "hlog"
  /\ LET called == [run EXCEPT !.logCalls = @ + 1] IN
     /\ NoFault
     /\ run' = called
     /\ results' = Append(results,
           Returned(called,
             SyncResult(FALSE, 0, 0, <<run.exc>>, None, NowLoop(run)), log))
  /\ pc' = "idle"
  /\ UNCHANGED <<remote, Disk, Git>>

\* A variant of HandlerLog that logs and returns the counts collected so far
HandlerLogKeepsCounts ==
  /\ pc = "hlog"
  /\ LET called == [run EXCEPT !.logCalls = @ + 1] IN
     \/ /\ NoFault
        /\ log' = log_sync(log, NowLoop(run), run.pages_synced, "pull", "error",
                           <<run.exc>>)
        /\ dbVer' = dbVer + 1
        /\ run' = called
        /\ results' = Append(results,
              Returned(called,
                SyncResult(FALSE, run.pages_synced, run.pages_skipped,
                           <<run.exc>>, None, NowLoop(run)),
                log'))
     \/ /\ Fault
        /\ run' = Raised(called, "hlog", TRUE)
        /\ results' = Append(results, RaisedOut(run', log))
        /\ UNCHANGED <<log, dbVer>>
  /\ pc' = "idle"
  /\ UNCHANGED <<remote, store, files, Git>>

\* lines 172-188: the handler logs the failure and returns a failed result;
\* an exception of its own log_sync leaves sync_now
HandlerLog ==
  /\ pc = "hlog"
  /\ LET called == [run EXCEPT !.logCalls = @ + 1] IN
     \/ /\ NoFault
        /\ log' = log_sync(log, NowLoop(run), 0, "pull", "error", <<run.exc>>)
        /\ dbVer' = dbVer + 1
        /\ run' = called
        /\ results' = Append(results,
              Returned(called,
                SyncResult(FALSE, 0, 0, <<run.exc>>, None, NowLoop(run)),
                log'))
     \/ /\ Fault
        /\ run' = Raised(called, "hlog", TRUE)
        /\ results' = Append(results, RaisedOut(run', log))
        /\ UNCHANGED <<log, dbVer>>
  /\ pc' = "idle"
  /\ UNCHANGED <<remote, store, files, Git>>

\* ------------------------------------------------------------------ spec
NoFiles == [f \in {} |-> Absent]

\* A remote page as the API reports it
RemotePage(title, stamp) ==
  [title |-> title, content |-> "c1", stamp |-> stamp, edited |-> 0]

\* The remote database holds the n pages 2..n+1, all with the same shape of
\* last_edited_time; their titles are all TitleA, or TitleA and TitleB in turn.
Database(n, stamp, same) ==
  [id \in IdUniverse |->
     IF id <= n + 1
     THEN RemotePage(IF same \/ id % 2 = 0 THEN TitleA ELSE TitleB, stamp)
     ELSE Absent]

\* After NotionSync.__init__ in a repository with no page and no record:
\* memory.db exists (db.init()) and is not tracked, pages/ is empty.
Init ==
  /\ \E n \in 0..MaxPages, stamp \in StampKinds, same \in BOOLEAN :
       /\ n = 0 => stamp = "absent"
       /\ n < 2 => same
       /\ remote = Database(n, stamp, same)
  /\ store = [id \in IdUniverse |-> Absent]
  /\ log = <<>>
  /\ dbVer = 0
  /\ files = NoFiles
  /\ index = [files |-> NoFiles, db |-> Absent]
  /\ head = [files |-> NoFiles, db |-> Absent]
  /\ commits = <<>>
  /\ pc = "idle"
  /\ run = NewRun(0)
  /\ results = <<>>
  /\ faultsLeft = MaxFaults

Next ==
  \/ StartRun
  \/ GetLastSyncTime
  \/ GetDatabasePages
  \/ FetchContent
  \/ CheckNeedsSync
  \/ WritePageFile
  \/ UpsertPage
  \/ HasChanges
  \/ CommitSync
  \/ Push
  \/ LogSync
  \/ HandlerLog

Spec == Init /\ [][Next]_vars


\* ------------------------------------------------- record store, by itself
\* A variant of mark_synced written as REPLACE INTO pages (notion_id, status,
\* last_synced, content_hash): the row is made anew, also when there was none
MarkSyncedReplace(st, notion_id, content_hash, now) ==
  [st EXCEPT ![notion_id] =
     [notion_id |-> notion_id, title |-> None, parent_id |-> None,
      content_hash |-> content_hash, last_edited |-> None,
      last_synced |-> utcnow(now), status |-> "synced"]]

\* SyncDatabase.mark_synced: UPDATE pages SET status = 'synced',
\* last_synced = ?, content_hash = ? WHERE notion_id = ?
mark_synced(st, notion_id, content_hash, now) ==
  IF st[notion_id] = Absent THEN st
  ELSE [st EXCEPT ![notion_id].status = "synced",
                  ![notion_id].last_synced = utcnow(now),
                  ![notion_id].content_hash = content_hash]

\* SyncDatabase.update_sync_status: UPDATE pages SET status = ?,
\* last_synced = ? WHERE notion_id = ?
update_sync_status(st, notion_id, status, now) ==
  IF st[notion_id] = Absent THEN st
  ELSE [st EXCEPT ![notion_id].status = status,
                  ![notion_id].last_synced = utcnow(now)]

\* The values of the status column that get_pages_by_status names
Statuses == {"synced", "pending", "conflict", "deleted"}

Contents == {"c1", "c2"}

\* The instant of the direct call being made: its position among the calls
OpNow == Len(results) + 1

\* The instants a remote edit is reported at: before every call, after all
EditInstants == {0, MaxOps + 1}

\* The PageRecords handed to upsert_page: built as lines 226-234 build them
\* from a parsed page, with the digest of "c1" and status 'synced' or, the
\* status being a field of the dataclass, the digest of "c2" and 'pending'
Records(now) ==
  { [PageRecord(ParsePage(id, RemotePage(title, stamp), now),
                compute_hash(c), now)
       EXCEPT !.status = IF c = "c1" THEN "synced" ELSE "pending"] :
      id \in IdUniverse, title \in {TitleA, TitleB}, stamp \in StampKinds,
      c \in Contents }

\* What is kept of a direct call of a store operation: its arguments, the
\* pages table and the sync_log table before and after, and what the call
\* returned or raised
Called(op, args, after, logAfter, out) ==
  [op |-> op, args |-> args, before |-> store, after |-> after, out |-> out,
   logBefore |-> log, logAfter |-> logAfter]

\* A committed write of memory.db
Written(before, after) == IF after = before THEN 0 ELSE 1

\* db.upsert_page(page)
CallUpsertPage ==
  /\ pc = "idle"
  /\ Len(results) < MaxOps
  /\ \E rec \in Records(OpNow) :
       /\ store' = upsert_page(store, rec)
       /\ results' = Append(results, Called("upsert_page", rec, store', log, Ret(None)))
  /\ dbVer' = dbVer + 1
  /\ UNCHANGED <<remote, log, files, Git, pc, run, faultsLeft>>

\* db.mark_synced(notion_id, content_hash)
CallMarkSynced ==
  /\ pc = "idle"
  /\ Len(results) < MaxOps
  /\ \E id \in IdUniverse, c \in Contents :
       /\ store' = mark_synced(store, id, compute_hash(c), OpNow)
       /\ results' = Append(results,
             Called("mark_synced", [notion_id |-> id, content_hash |-> compute_hash(c)],
                    store', log, Ret(None)))
  /\ dbVer' = dbVer + Written(store, store')
  /\ UNCHANGED <<remote, log, files, Git, pc, run, faultsLeft>>

\* db.update_sync_status(notion_id, status)
CallUpdateSyncStatus ==
  /\ pc = "idle"
  /\ Len(results) < MaxOps
  /\ \E id \in IdUniverse, status \in Statuses :
       /\ store' = update_sync_status(store, id, status, OpNow)
       /\ results' = Append(results,
             Called("update_sync_status", [notion_id |-> id, status |-> status],
                    store', log, Ret(None)))
  /\ dbVer' = dbVer + Written(store, store')
  /\ UNCHANGED <<remote, log, files, Git, pc, run, faultsLeft>>

\* db.needs_sync(notion_id, last_edited, content_hash), last_edited being what
\* _parse_page makes of the three shapes of last_edited_time
CallNeedsSync ==
  /\ pc = "idle"
  /\ Len(results) < MaxOps
  /\ \E id \in IdUniverse, stamp \in StampKinds, e \in EditInstants, c \in Contents :
       LET last_edited == ParseLastEdited([stamp |-> stamp, edited |-> e], OpNow) IN
       results' = Append(results,
          Called("needs_sync",
                 [notion_id |-> id, last_edited |-> last_edited,
                  content_hash |-> compute_hash(c)],
                 store, log, needs_sync(store[id], last_edited, compute_hash(c))))
  /\ UNCHANGED <<remote, Disk, Git, pc, run, faultsLeft>>

\* db.log_sync(pages_synced, direction, status)
CallLogSync ==
  /\ pc = "idle"
  /\ Len(results) < MaxOps
  /\ log' = log_sync(log, OpNow, 0, "pull", "success", <<>>)
  /\ results' = Append(results,
        Called("log_sync", [pages_synced |-> 0, status |-> "success"], store,
               log', Ret(None)))
  /\ dbVer' = dbVer + 1
  /\ UNCHANGED <<remote, store, files, Git, pc, run, faultsLeft>>

\* A fresh memory.db (db.init()) and no remote page
InitStore == Init /\ remote = Database(0, "absent", TRUE)

NextStore ==
  \/ CallUpsertPage
  \/ CallMarkSynced
  \/ CallUpdateSyncStatus
  \/ CallNeedsSync
  \/ CallLogSync

\* The record store under direct calls of its operations
SpecStore == InitStore /\ [][NextStore]_vars


\* ------------------------------------- record store, with storage faults
\* SyncDatabase.delete_page: DELETE FROM pages WHERE notion_id = ?
delete_page(st, notion_id) == [st EXCEPT ![notion_id] = Absent]

\* Where a storage fault can hit a call: in sqlite3.connect, in conn.execute,
\* in conn.commit
StorageFaults == {"connect", "execute", "commit"}

\* A variant of _connection whose connection is in autocommit mode: what
\* execute wrote is already in the file when commit raises
ConnectionAutocommit(db, pending, fault) ==
  CASE fault = "none" -> [db |-> pending, out |-> Ret(None)]
    [] fault = "connect" -> [db |-> db, out |-> Exc("sqlite3.Error")]
    [] fault = "execute" -> [db |-> db, out |-> Exc("sqlite3.Error")]
    [] fault = "commit" -> [db |-> pending, out |-> Exc("sqlite3.Error")]

\* SyncDatabase._connection around one statement: db is the content of
\* memory.db before the call, pending what the statement makes of it inside
\* the transaction.  Without fault the transaction is committed; connect
\* raises before anything is done; an exception of execute or of commit is
\* answered by conn.rollback() and raised again.
_connection(db, pending, fault) ==
  CASE fault = "none" -> [db |-> pending, out |-> Ret(None)]
    [] fault = "connect" -> [db |-> db, out |-> Exc("sqlite3.Error")]
    [] fault = "execute" -> [db |-> db, out |-> Exc("sqlite3.Error")]
    [] fault = "commit" -> [db |-> db, out |-> Exc("sqlite3.Error")]

\* The PageRecords handed to upsert_page while the storage may fail
TxRecords(now) ==
  { PageRecord(ParsePage(id, RemotePage(TitleA, "absent"), now),
               compute_hash(c), now) : id \in IdUniverse, c \in Contents }

\* One write operation called directly: the statement runs inside
\* _connection, with or without a storage fault, and the call is kept with
\* the tables before and after it
Transact(op, args, pages, entries) ==
  /\ pc = "idle"
  /\ Len(results) < MaxOps
  /\ \E fault \in {"none"} \cup StorageFaults :
       LET before == [pages |-> store, log |-> log]
           pending == [pages |-> pages, log |-> entries]
           done == _connection(before, pending, fault)
       IN
       /\ IF fault = "none" THEN NoFault ELSE Fault
       /\ store' = done.db.pages
       /\ log' = done.db.log
       /\ dbVer' = dbVer + Written(before, done.db)
       /\ results' = Append(results,
             [op |-> op, args |-> args, fault |-> fault, pending |-> pending,
              before |-> store, after |-> done.db.pages, out |-> done.out,
              logBefore |-> log, logAfter |-> done.db.log])
  /\ UNCHANGED <<remote, files, Git, pc, run>>

\* db.upsert_page(page)
TxUpsertPage ==
  \E rec \in TxRecords(OpNow) :
    Transact("upsert_page", rec, upsert_page(store, rec), log)

\* db.mark_synced(notion_id, content_hash)
TxMarkSynced ==
  \E id \in IdUniverse, c \in Contents :
    Transact("mark_synced",
             [notion_id |-> id, content_hash |-> compute_hash(c)],
             mark_synced(store, id, compute_hash(c), OpNow), log)

\* db.update_sync_status(notion_id, status)
TxUpdateSyncStatus ==
  \E id \in IdUniverse, status \in {"pending", "deleted"} :
    Transact("update_sync_status", [notion_id |-> id, status |-> status],
             update_sync_status(store, id, status, OpNow), log)

\* db.delete_page(notion_id)
TxDeletePage ==
  \E id \in IdUniverse :
    Transact("delete_page", [notion_id |-> id], delete_page(store, id), log)

\* db.log_sync(pages_synced, direction, status, message)
TxLogSync ==
  \E status \in {"success", "error"} :
    Transact("log_sync", [pages_synced |-> 0, status |-> status], store,
             log_sync(log, OpNow, 0, "pull", status, <<>>))

NextTx ==
  \/ TxUpsertPage
  \/ TxMarkSynced
  \/ TxUpdateSyncStatus
  \/ TxDeletePage
  \/ TxLogSync

\* The write operations of the record store under storage faults
SpecTx == InitStore /\ [][NextTx]_vars

\* ------------------------------------------------ between and during runs
\* Someone edits a file of pages/ by hand between two sync_now calls
LocalEdit ==
  /\ pc = "idle"
  /\ Len(results) >= 1
  /\ Len(results) < MaxRuns
  /\ \E f \in DOMAIN files :
       /\ files[f].body # "local"
       /\ files' = [files EXCEPT ![f].body = "local"]
  /\ UNCHANGED <<remote, store, log, dbVer, Git, pc, run, results, faultsLeft>>

NextLocal == Next \/ LocalEdit

\* sync_now calls with hand edits of the local files between them
SpecLocal == Init /\ [][NextLocal]_vars

\* The process running sync_now is killed between two of its steps: what a
\* step committed to memory.db, wrote to pages/ or did in git stays, the call
\* returns nothing and logs nothing more
Crash ==
  /\ pc # "idle"
  /\ Fault
  /\ run' = Raised(run, "crash", TRUE)
  /\ results' = Append(results, RaisedOut(run', log))
  /\ pc' = "idle"
  /\ UNCHANGED <<remote, Disk, Git>>

NextCrash == Next \/ Crash

\* sync_now calls that can be interrupted
SpecCrash == Init /\ [][NextCrash]_vars

\* A page of the Notion database is edited between two sync_now calls: its
\* title or its content changes (once per page), and with it last_edited_time
RemoteEdit ==
  /\ pc = "idle"
  /\ Len(results) >= 1
  /\ Len(results) < MaxRuns
  /\ \E id \in RemoteIds(remote), title \in {TitleA, TitleB}, c \in Contents :
       /\ remote[id].edited = 0
       /\ title # remote[id].title \/ c # remote[id].content
       /\ remote' = [remote EXCEPT ![id].title = title, ![id].content = c,
                                   ![id].edited = 2 * Len(results) + 2]
  /\ UNCHANGED <<Disk, Git, pc, run, results, faultsLeft>>

NextRemote == Next \/ RemoteEdit

\* sync_now calls with edits of the remote pages between them
SpecRemote == Init /\ [][NextRemote]_vars


\* Someone edits the content of a listed page in Notion while the loop has
\* not yet fetched it: the listing is done, get_page_content for the page is
\* still to come
RemoteEditDuringRun ==
  /\ pc = "fetch"
  /\ \E n \in run.i..Len(run.pages), c \in Contents :
       LET id == run.pages[n].id IN
       /\ remote[id].edited = 0
       /\ c # remote[id].content
       /\ remote' = [remote EXCEPT ![id].content = c,
                                   ![id].edited = NowLoop(run)]
  /\ UNCHANGED <<Disk, Git, pc, run, results, faultsLeft>>

NextDuring == Next \/ RemoteEditDuringRun

\* sync_now calls with edits of the remote pages while a call is running
SpecDuring == Init /\ [][NextDuring]_vars

\* Someone edits the content of a page in Notion after the loop has fetched
\* it and before the run has written its log entry
RemoteEditAfterFetch ==
  /\ pc \in {"check", "write", "upsert", "fetch", "changes", "commit", "push", "log"}
  /\ run.listed
  /\ \E n \in 1..Len(run.pages), c \in Contents :
       LET id == run.pages[n].id IN
       /\ n < run.i \/ (n = run.i /\ pc \in {"check", "write", "upsert"})
       /\ remote[id].edited = 0
       /\ c # remote[id].content
       /\ remote' = [remote EXCEPT ![id].content = c,
                                   ![id].edited = NowLoop(run)]
  /\ UNCHANGED <<Disk, Git, pc, run, results, faultsLeft>>

NextLate == Next \/ RemoteEditAfterFetch

\* sync_now calls with edits of the remote pages after their content was
\* fetched
SpecLate == Init /\ [][NextLate]_vars

\* ------------------------------------------------- paginated requests
\* A cursor of the Notion API
Cursor(n) == [py |-> "str", id |-> n]

Cursors == {Cursor(n) : n \in 1..(MaxResponses - 1)}

\* The responses the API can give to one request of a paginated call: one
\* result, has_more, and a next_cursor that is null or a cursor
ResponseSet ==
  [results : {<<"result">>}, has_more : BOOLEAN, next_cursor : {None} \cup Cursors]

\* The responses of one paginated call, in the order they are given: at most
\* MaxResponses, the last one with has_more false
Scripts ==
  UNION {{s \in [1..n -> ResponseSet] : ~s[n].has_more} : n \in 1..MaxResponses}

\* The locals of get_database_pages (loop "query") or get_page_content (loop
\* "blocks") before the first request, with the requests made so far
Paging(loop) ==
  [loop |-> loop, start_cursor |-> None, items |-> <<>>, requests |-> <<>>,
   out |-> None]

\* A variant of RequestPage that never sends the cursor
RequestFirstPage(loop) ==
  /\ pc = loop
  /\ LET response == remote[Len(run.requests) + 1] IN
     \/ /\ NoFault
        /\ run' = [run EXCEPT
                     !.requests = Append(@, None),
                     !.items = @ \o response.results,
                     !.start_cursor = IF response.has_more
                                      THEN response.next_cursor ELSE @,
                     !.out = IF response.has_more
                             THEN @ ELSE Ret(run.items \o response.results)]
        /\ pc' = IF response.has_more THEN loop ELSE "paged"
     \/ /\ Fault
        /\ run' = [run EXCEPT !.requests = Append(@, None),
                              !.out = Exc("NotionClientError")]
        /\ pc' = "paged"
  /\ UNCHANGED <<remote, Disk, Git, results>>

\* One iteration of `while True` in get_database_pages (lines 218-239) and in
\* get_page_content (lines 273-283): the request carries start_cursor when it
\* is set, the results of the response are appended, and the loop ends when
\* has_more is not set, else goes on from next_cursor; _request may raise
RequestPage(loop) ==
  /\ pc = loop
  /\ LET response == remote[Len(run.requests) + 1] IN
     \/ /\ NoFault
        /\ run' = [run EXCEPT
                     !.requests = Append(@, run.start_cursor),
                     !.items = @ \o response.results,
                     !.start_cursor = IF response.has_more
                                      THEN response.next_cursor ELSE @,
                     !.out = IF response.has_more
                             THEN @ ELSE Ret(run.items \o response.results)]
        /\ pc' = IF response.has_more THEN loop ELSE "paged"
     \/ /\ Fault
        /\ run' = [run EXCEPT !.requests = Append(@, run.start_cursor),
                              !.out = Exc("NotionClientError")]
        /\ pc' = "paged"
  /\ UNCHANGED <<remote, Disk, Git, results>>

\* NotionClient.get_database_pages, its loop
QueryDatabase == RequestPage("query")

\* NotionClient.get_page_content, its loop
BlockChildren == RequestPage("blocks")

\* A paginated call about to make its first request, the responses it will
\* get being fixed
InitPaging ==
  /\ remote \in Scripts
  /\ pc \in {"query", "blocks"}
  /\ run = Paging(pc)
  /\ store = [id \in IdUniverse |-> Absent]
  /\ log = <<>>
  /\ dbVer = 0
  /\ files = NoFiles
  /\ index = [files |-> NoFiles, db |-> Absent]
  /\ head = [files |-> NoFiles, db |-> Absent]
  /\ commits = <<>>
  /\ results = <<>>
  /\ faultsLeft = MaxFaults

\* sync_now over a database whose pages carry no last_edited_time
InitRuns == Init /\ \E n \in 0..MaxPages : remote = Database(n, "absent", TRUE)

InitTerm == InitRuns \/ InitPaging

NextTerm == Next \/ QueryDatabase \/ BlockChildren

\* Calls of sync_now and paginated calls that are not held up: a call that
\* can take a step takes one
SpecTerm == InitTerm /\ [][NextTerm]_vars /\ WF_vars(NextTerm)

\* ------------------------------------------------------ commit messages
\* direction of commit_sync: 'pull', 'push' or 'sync'
Directions == {"pull", "push", "sync"}

\* str(n) for the small numbers of the model
str(n) == ToString(n)

\* int(text) of a text given as its words: the number when the text is one
\* word of digits, ValueError otherwise
int(text) ==
  IF Len(text) = 1 /\ \E n \in 0..(MaxPages + 1) : str(n) = text[1]
  THEN Ret(CHOOSE n \in 0..(MaxPages + 1) : str(n) = text[1])
  ELSE Exc("ValueError")

\* commit_msg of commit_sync as text, word by word:
\* f"Sync {timestamp} | {pages_changed} pages | {direction}"
Subject(msg) ==
  <<"Sync", str(msg.timestamp), "|", str(msg.pages), "pages", "|", msg.direction>>

\* text.split(sep) on a text given as its words: the pieces between the
\* occurrences of sep, at least one piece
RECURSIVE split(_, _)
split(text, sep) ==
  IF \A k \in 1..Len(text) : text[k] # sep
  THEN <<text>>
  ELSE LET at == CHOOSE k \in 1..Len(text) :
                   text[k] = sep /\ \A j \in 1..(k - 1) : text[j] # sep
       IN <<SubSeq(text, 1, at - 1)>> \o split(SubSeq(text, at + 1, Len(text)), sep)

\* stdout of git log -1 --grep=Sync --format=%H|%ci|%s for the commit k of cs
LogLine(cs, k) == <<str(k), "|", str(cs[k].timestamp), "|">> \o Subject(cs[k])

\* GitOperations.get_last_sync_commit: the line of the last commit is split
\* at "|", parts[2] is taken as the message, and the number before "pages"
\* in it is the page count, 0 when there is none
get_last_sync_commit(cs) ==
  IF cs = <<>> THEN None
  ELSE LET parts == split(LogLine(cs, Len(cs)), "|")
           message == parts[3]
           before == split(message, "pages")[1]
           pages_part == split(before, "|")[Len(split(before, "|"))]
           pages_count == IF \E k \in 1..Len(message) : message[k] = "pages"
                          THEN IF IsExc(int(pages_part)) THEN 0
                               ELSE int(pages_part).ret
                          ELSE 0
       IN IF Len(parts) < 3 THEN None
          ELSE [commit_hash |-> parts[1], timestamp |-> parts[2],
                pages_count |-> pages_count]

\* NotionSync.get_status, its last_commit entry
get_status(cs) ==
  LET last_commit == get_last_sync_commit(cs) IN
  [last_commit |->
     [hash |-> IF last_commit # None THEN last_commit.commit_hash ELSE None,
      timestamp |-> IF last_commit # None THEN last_commit.timestamp ELSE None,
      pages |-> IF last_commit # None THEN last_commit.pages_count ELSE 0]]

\* A repository with memory.db in it and no commit, and no sync_now running
InitStatus ==
  /\ remote = Database(0, "absent", TRUE)
  /\ store = [id \in IdUniverse |-> Absent]
  /\ log = <<>>
  /\ dbVer = 0
  /\ files = NoFiles
  /\ index = [files |-> NoFiles, db |-> Absent]
  /\ head = [files |-> NoFiles, db |-> Absent]
  /\ commits = <<>>
  /\ pc = "shell"
  /\ run = NewRun(0)
  /\ results = <<>>
  /\ faultsLeft = 0

\* A committed write to memory.db
StoreWrite ==
  /\ pc = "shell"
  /\ dbVer <= Len(commits)
  /\ dbVer < MaxOps
  /\ dbVer' = dbVer + 1
  /\ UNCHANGED <<remote, store, log, files, Git, pc, run, results, faultsLeft>>

\* GitOperations.commit_sync(pages_changed, direction): stage, and commit with
\* commit_msg when there is something to commit
CallCommitSync ==
  /\ pc = "shell"
  /\ Len(commits) < MaxOps
  /\ \E pages_changed \in 0..MaxPages, direction \in Directions :
       LET staged == stage_all(files, DbFile(dbVer)) IN
       /\ index' = staged
       /\ IF has_changes(staged, head, files, DbFile(dbVer))
          THEN /\ head' = staged
               /\ commits' = Append(commits,
                                CommitMsg(pages_changed, direction, Len(commits) + 1))
          ELSE UNCHANGED <<head, commits>>
  /\ UNCHANGED <<remote, Disk, pc, run, results, faultsLeft>>

\* NotionSync.get_status, with the number of commits it was called after
CallGetStatus ==
  /\ pc = "shell"
  /\ Len(results) < MaxOps
  /\ results' = Append(results, [status |-> get_status(commits), after |-> Len(commits)])
  /\ UNCHANGED <<remote, Disk, Git, pc, run, faultsLeft>>

NextStatus == StoreWrite \/ CallCommitSync \/ CallGetStatus

\* Direct calls of commit_sync and get_status on a repository
SpecStatus == InitStatus /\ [][NextStatus]_vars

\* ---------------------------------------------------------------- claims
Range(q) == {q[k] : k \in 1..Len(q)}

Runs == 1..Len(results)

\* The sync_log rows that call k appended
Entries(k) == SubSeq(log, results[k].run.logStart + 1, results[k].logEnd)

\* The exceptions that line 240 catches for one page
PageFaults == {"fetch", "check", "write", "upsert", "ValueError", "TypeError"}

\* The exceptions of steps 1-4 that reach line 172
EscapingFaults ==
  {"since", "AttributeError", "list", "changes", "stage", "commit",
   "revparse", "push"}

CountOf(q, kind) == Cardinality({k \in 1..Len(q) : q[k].kind = kind})

\* C1: a run whose candidates all need syncing and in which exactly one
\* get_page_content fails (and nothing else) returns pages_synced = N-1, one
\* error, success = false, and logs one entry with status 'partial'.
C1_PageIsolation ==
  \A k \in Runs :
    LET R == results[k] IN
    (/\ R.run.listed
     /\ Len(R.run.pages) >= 1
     /\ R.run.allNeed
     /\ R.run.faults = <<"fetch">>)
    => /\ R.returned
       /\ R.result.pages_synced = Len(R.run.pages) - 1
       /\ Len(R.result.errors) = 1
       /\ R.result.success = FALSE
       /\ Len(Entries(k)) = 1
       /\ Entries(k)[1].status = "partial"
       /\ Entries(k)[1].pages_synced = Len(R.run.pages) - 1

C1_Witness ==
  \E k \in Runs :
    /\ results[k].run.listed
    /\ Len(results[k].run.pages) >= 2
    /\ results[k].run.allNeed
    /\ results[k].run.faults = <<"fetch">>
    /\ results[k].returned
    /\ results[k].result.pages_synced >= 1

\* C2: a run whose listing fails (and nothing else) logs one entry with
\* status 'error' and pages_synced = 0 and returns success = false.
C2_ListingFailureAborts ==
  \A k \in Runs :
    LET R == results[k] IN
    R.run.faults \in {<<"NotionClientError">>, <<"list">>}
    => /\ R.returned
       /\ R.result.success = FALSE
       /\ Len(Entries(k)) = 1
       /\ Entries(k)[1].status = "error"
       /\ Entries(k)[1].pages_synced = 0

\* C3: of two successive runs without environment faults (the remote pages
\* being the same), the second returns pages_synced = 0 and pages_skipped =
\* the pages_synced of the first.
C3_Idempotence ==
  \A k \in Runs :
    (/\ k >= 2
     /\ results[k - 1].run.injected = 0
     /\ results[k].run.injected = 0)
    => /\ results[k].returned
       /\ results[k - 1].returned
       /\ results[k].result.pages_synced = 0
       /\ results[k].result.pages_skipped = results[k - 1].result.pages_synced

\* C4: the run after a fault-free run that synced pages and committed finds
\* no working-tree change (has_changes is false), does not call commit_sync,
\* and appends one log entry with pages_synced = 0.
C4_SecondRunNoCommit ==
  \A k \in Runs :
    (/\ k >= 2
     /\ results[k - 1].run.injected = 0
     /\ results[k].run.injected = 0
     /\ results[k - 1].returned
     /\ results[k - 1].result.pages_synced >= 1
     /\ results[k - 1].result.commit_hash # None)
    => /\ results[k].run.changesSeen = "no"
       /\ ~results[k].run.commitCalled
       /\ Len(Entries(k)) = 1
       /\ Entries(k)[1].pages_synced = 0

DistinctIds(pages) ==
  \A a, b \in 1..Len(pages) : pages[a].id = pages[b].id => a = b

\* C5: the first run, on an empty store, over N pages with distinct ids and
\* without fault: pages_synced = N, pages_skipped = 0, N files, one 'synced'
\* record per page with the digest of its content, one log entry (N, success).
C5_FirstRun ==
  (pc = "idle" /\ Len(results) = 1)
  => LET R == results[1] IN
     (R.run.injected = 0 /\ R.run.listed /\ DistinctIds(R.run.pages))
     => /\ R.returned
        /\ R.result.pages_synced = Len(R.run.pages)
        /\ R.result.pages_skipped = 0
        /\ Cardinality(DOMAIN files) = Len(R.run.pages)
        /\ \A k \in 1..Len(R.run.pages) :
             LET id == R.run.pages[k].id IN
             /\ store[id] # Absent
             /\ store[id].status = "synced"
             /\ store[id].content_hash = compute_hash(remote[id].content)
        /\ \A id \in IdUniverse : remote[id] = Absent => store[id] = Absent
        /\ Len(Entries(1)) = 1
        /\ Entries(1)[1].pages_synced = Len(R.run.pages)
        /\ Entries(1)[1].status = "success"


\* C6: when commit_sync succeeds and push then fails with GitOperationsError
\* (any other fault of the run being a per-page one), the commit stays in the
\* history, the result carries its identifier and exactly one push error next
\* to the per-page errors, and the run is logged 'partial' with the synced
\* count.
C6_PushFailureKeepsCommit ==
  \A k \in Runs :
    LET R == results[k] IN
    (/\ R.run.commit_hash # None
     /\ "GitOperationsError" \in Range(R.run.faults)
     /\ Range(R.run.faults) \subseteq PageFaults \cup {"GitOperationsError"})
    => /\ R.returned
       /\ R.commitsEnd = R.run.commitsStart + 1
       /\ Len(commits) >= R.commitsEnd
       /\ commits[R.commitsEnd].pages = R.run.pages_synced
       /\ R.result.commit_hash = CommitId(R.commitsEnd)
       /\ CountOf(R.result.errors, "push") = 1
       /\ Len(R.result.errors) = CountOf(R.result.errors, "page") + 1
       /\ CountOf(R.result.errors, "page") = Len(R.run.faults) - 1
       /\ Len(Entries(k)) = 1
       /\ Entries(k)[1].status = "partial"
       /\ Entries(k)[1].pages_synced = R.run.pages_synced

C6_Witness ==
  \E k \in Runs :
    /\ results[k].run.commit_hash # None
    /\ "GitOperationsError" \in Range(results[k].run.faults)
    /\ results[k].returned
    /\ results[k].result.pages_synced >= 1
    /\ results[k].result.commit_hash = CommitId(Len(commits))

\* C7: when commit_sync fails after the loop synced k pages, push is not
\* attempted and the log entry of the run has pages_synced = k.
C7_CommitFailureKeepsCounts ==
  \A k \in Runs :
    LET R == results[k] IN
    (/\ R.run.exc \in {"stage", "commit", "revparse"}
     /\ "hlog" \notin Range(R.run.faults))
    => /\ ~R.run.pushCalled
       /\ Len(Entries(k)) = 1
       /\ Entries(k)[1].pages_synced = R.run.pages_synced

\* C8: every sync_now call, whatever faults occur, returns a SyncResult and
\* appends exactly one entry to the sync log.
C8_AlwaysOneResultOneEntry ==
  \A k \in Runs : results[k].returned /\ Len(Entries(k)) = 1

\* C8 (amended): a sync_now call returns a SyncResult and appends exactly one
\* log entry unless the log_sync call of its exception handler raises; then
\* the exception leaves sync_now, no SyncResult is returned and no entry is
\* appended.  No call appends two entries.
C8_OneResultOneEntryUnlessHandlerLogFails ==
  \A k \in Runs :
    LET R == results[k] IN
    /\ R.returned <=> "hlog" \notin Range(R.run.faults)
    /\ R.returned => Len(Entries(k)) = 1
    /\ ~R.returned => Len(Entries(k)) = 0
    /\ R.logEnd = Len(log) \/ (k < Len(results) /\ R.logEnd = results[k + 1].run.logStart)

C8_Witness ==
  \E k \in Runs :
    /\ "log" \in Range(results[k].run.faults)
    /\ results[k].returned
    /\ Len(Entries(k)) = 1
    /\ Entries(k)[1].status = "error"

\* C9: a run that reaches line 155 and whose log_sync there succeeds logs
\* 'success' exactly when its error list is empty and 'partial' otherwise,
\* logs its synced count, and returns success = true exactly when the error
\* list is empty.
C9_LogMatchesErrors ==
  \A k \in Runs :
    LET R == results[k] IN
    (R.returned /\ R.run.exc = "")
    => /\ Len(Entries(k)) = 1
       /\ Entries(k)[1].status = "success" <=> R.run.errors = <<>>
       /\ Entries(k)[1].status = "partial" <=> R.run.errors # <<>>
       /\ Entries(k)[1].pages_synced = R.run.pages_synced
       /\ R.result.pages_synced = R.run.pages_synced
       /\ R.result.errors = R.run.errors
       /\ R.result.success <=> R.run.errors = <<>>

C9_Witness ==
  \E k \in Runs :
    /\ results[k].returned
    /\ results[k].run.exc = ""
    /\ results[k].run.errors # <<>>
    /\ results[k].run.pages_synced >= 1
    /\ Entries(k)[1].status = "partial"

\* C10: when an exception of steps 1-4 that is caught neither per page nor
\* as a push failure reaches the handler (whose log_sync succeeds), the run
\* logs one entry with status 'error', pages_synced = 0 and the message of
\* the exception, and returns success = false, zero counts and no commit
\* identifier.
C10_EscapedFaultFailsRun ==
  \A k \in Runs :
    LET R == results[k] IN
    (R.run.exc \in EscapingFaults /\ R.returned)
    => /\ Len(Entries(k)) = 1
       /\ Entries(k)[1].status = "error"
       /\ Entries(k)[1].pages_synced = 0
       /\ Entries(k)[1].message = <<R.run.exc>>
       /\ R.result.success = FALSE
       /\ R.result.pages_synced = 0
       /\ R.result.pages_skipped = 0
       /\ R.result.errors = <<R.run.exc>>
       /\ R.result.commit_hash = None

C10_Witness ==
  \E k \in Runs :
    /\ results[k].run.exc = "commit"
    /\ results[k].returned
    /\ results[k].run.pages_synced >= 1
    /\ Entries(k)[1].status = "error"

\* ------------------------------------------------- claims on the store
Calls == 1..Len(results)

\* needs_sync as section 4.1 states it: no record, or another hash, or an
\* edit strictly after last_synced
NeedsSyncStated(row, last_edited, content_hash) ==
  \/ row = Absent
  \/ row.content_hash # content_hash
  \/ last_edited.t > row.last_synced.t

\* C11: needs_sync(id, lastEdited, hash) returns true exactly when no record
\* exists for id, or hash differs from the stored content_hash, or lastEdited
\* is strictly after the stored last_synced (and returns false otherwise).
C11_NeedsSyncIff ==
  \A k \in Calls :
    results[k].op = "needs_sync"
    => results[k].out =
         Ret(NeedsSyncStated(results[k].before[results[k].args.notion_id],
                             results[k].args.last_edited,
                             results[k].args.content_hash))

\* Call k set or changed the last_synced of the record of id
LastSyncedChanged(k, id) ==
  /\ results[k].after[id] # Absent
  /\ \/ results[k].before[id] = Absent
     \/ results[k].after[id].last_synced # results[k].before[id].last_synced

\* C17: a store operation that changes the last_synced of a record is one
\* that is given the digest of the written content and stores it as the
\* record's content_hash in the same statement.
C17_LastSyncedOnlyWithHash ==
  \A k \in Calls : \A id \in IdUniverse :
    LastSyncedChanged(k, id)
    => /\ "content_hash" \in DOMAIN results[k].args
       /\ results[k].after[id].content_hash = results[k].args.content_hash

\* C19: after upsert_page(r) the row of r.notion_id holds every field of r,
\* whether or not the id had a row before; the rows of the other ids are as
\* they were; and the same upsert once more leaves the table as it is.
C19_UpsertReplaces ==
  \A k \in Calls :
    results[k].op = "upsert_page"
    => LET r == results[k].args IN
       /\ results[k].after[r.notion_id] = r
       /\ \A id \in IdUniverse \ {r.notion_id} :
            results[k].after[id] = results[k].before[id]
       /\ upsert_page(results[k].after, r) = results[k].after

C19_Witness ==
  \E k \in Calls :
    LET r == results[k].args IN
    /\ results[k].op = "upsert_page"
    /\ results[k].before[r.notion_id] # Absent
    /\ results[k].before[r.notion_id].title # r.title
    /\ results[k].before[r.notion_id].content_hash # r.content_hash
    /\ results[k].before[r.notion_id].status # r.status
    /\ results[k].after[r.notion_id] = r

\* C20: mark_synced(id, hash) on an id that has a row sets its status to
\* 'synced', its last_synced to the instant of the call and its content_hash
\* to hash, and leaves its notion_id, title, parent_id and last_edited as they
\* were; on an id without row it changes nothing; the other rows and the sync
\* log are as they were.
C20_MarkSyncedFrame ==
  \A k \in Calls :
    results[k].op = "mark_synced"
    => LET id == results[k].args.notion_id
           b == results[k].before
           a == results[k].after
       IN /\ b[id] = Absent => a = b
          /\ b[id] # Absent
             => /\ a[id] # Absent
                /\ a[id].status = "synced"
                /\ a[id].last_synced = utcnow(k)
                /\ a[id].content_hash = results[k].args.content_hash
                /\ a[id].notion_id = b[id].notion_id
                /\ a[id].title = b[id].title
                /\ a[id].parent_id = b[id].parent_id
                /\ a[id].last_edited = b[id].last_edited
          /\ \A other \in IdUniverse \ {id} : a[other] = b[other]
          /\ results[k].logAfter = results[k].logBefore

C20_Witness ==
  \E k \in Calls :
    LET id == results[k].args.notion_id IN
    /\ results[k].op = "mark_synced"
    /\ results[k].before[id] # Absent
    /\ results[k].before[id].status = "pending"
    /\ results[k].before[id].content_hash # results[k].args.content_hash
    /\ results[k].after[id].status = "synced"
    /\ results[k].after[id].content_hash = results[k].args.content_hash

\* ------------------------------------------------- claims on sync runs
\* C12: in every run that reads it, the since value handed to the listing is
\* None when no earlier run logged 'success', and otherwise carries the
\* greatest sync_time among the 'success' entries of the earlier runs;
\* 'partial' and 'error' entries do not count.
C12_SinceIsLastSuccess ==
  \A k \in Runs :
    LET R == results[k]
        earlier == SuccessTimes(SubSeq(log, 1, R.run.logStart))
    IN "since" \notin Range(R.run.faults)
       => IF earlier = {} THEN R.run.since = None
          ELSE /\ R.run.since # None
               /\ R.run.since.t \in earlier
               /\ \A x \in earlier : x <= R.run.since.t

C12_Witness ==
  \E k \in Runs :
    /\ results[k].run.logStart >= 1
    /\ results[k].run.since # None
    /\ results[k].run.since.t = log[results[k].run.logStart].sync_time
    /\ "AttributeError" \in Range(results[k].run.faults)

\* The files of pages/ whose frontmatter names the page
FilesOf(id) == {f \in DOMAIN files : files[f].notion_id = id}

\* The page has a local file that holds its remote content
HoldsRemote(id) == \E f \in FilesOf(id) : files[f].body = remote[id].content

\* No two remote pages get the same filename
NamesDiffer ==
  \A a, b \in RemoteIds(remote) :
    a # b => Filename(ParsePage(a, remote[a], 0)) # Filename(ParsePage(b, remote[b], 0))

\* C13: after a sync_now call without environment fault, every remote page
\* (the filenames of the pages being distinct) has a local file holding the
\* remote content, also when the file was edited by hand since the previous
\* call: no hand edit survives the call.
C13_RemoteOverwritesLocal ==
  (pc = "idle" /\ Len(results) >= 1)
  => LET R == results[Len(results)] IN
     (R.run.injected = 0 /\ NamesDiffer)
     => \A id \in RemoteIds(remote) : HoldsRemote(id)

\* The page is mirrored: a local file holds its remote content and its
\* record carries the digest of that content
Converged(id) ==
  /\ HoldsRemote(id)
  /\ store[id] # Absent
  /\ store[id].content_hash = compute_hash(remote[id].content)

\* C14: when a sync_now call was interrupted and the next call ran to its end
\* without environment fault (the remote pages being the same), every remote
\* page is mirrored after that call.
C14_ConvergesAfterCrash ==
  (pc = "idle" /\ Len(results) >= 2)
  => LET k == Len(results) IN
     (/\ "crash" \in Range(results[k - 1].run.faults)
      /\ results[k].run.injected = 0)
     => \A id \in RemoteIds(remote) : Converged(id)

\* C15: after any sequence of sync_now calls, also when the title of a page
\* changed remotely between two of them, pages/ never holds two files for the
\* same page identifier.
C15_OneFilePerPage ==
  pc = "idle"
  => \A id \in IdUniverse :
       store[id] # Absent => Cardinality(FilesOf(id)) <= 1

\* C16: any two candidates of a listing with different identifiers get
\* different filenames, so that after a first run without fault each of them
\* has its own file in pages/.
C16_FilenamesUnique ==
  (pc = "idle" /\ Len(results) = 1)
  => LET R == results[1] IN
     (R.run.injected = 0 /\ R.run.listed)
     => \A a, b \in 1..Len(R.run.pages) :
          R.run.pages[a].id # R.run.pages[b].id
          => /\ Filename(R.run.pages[a]) # Filename(R.run.pages[b])
             /\ FilesOf(R.run.pages[a].id) # {}

\* C18: whatever faults occur in whatever sync_now calls, every record of the
\* store has status 'synced'.
C18_OnlySynced ==
  \A id \in IdUniverse : store[id] # Absent => store[id].status = "synced"

C18_Witness ==
  /\ pc = "idle"
  /\ \E k \in Runs : results[k].run.injected >= 1 /\ results[k].run.pages_synced >= 1
  /\ \E id \in IdUniverse : store[id] # Absent /\ store[id].status = "synced"


\* ---------------------------------------------------- commit, push, counts
\* The commits that call k of sync_now added to the history
CommitsOf(k) == results[k].commitsEnd - results[k].run.commitsStart

\* C21: a run of sync_now creates at most one commit; when has_changes
\* reported no pending changes after the page loop, commit_sync and push were
\* not called, the history is as it was and the result carries no commit
\* identifier.
C21_AtMostOneCommit ==
  /\ Len(commits) - run.commitsStart \in {0, 1}
  /\ \A k \in Runs :
       /\ CommitsOf(k) \in {0, 1}
       /\ results[k].run.changesSeen = "no" =>
            /\ ~results[k].run.commitCalled
            /\ ~results[k].run.pushCalled
            /\ CommitsOf(k) = 0
            /\ results[k].returned => results[k].result.commit_hash = None

\* A run that saw no pending changes and returned, and a run that committed
C21_Witness ==
  /\ \E k \in Runs : results[k].run.changesSeen = "no" /\ results[k].returned
  /\ \E k \in Runs : CommitsOf(k) = 1 /\ results[k].returned

\* What C22 says of the locals r of one call of sync_now
PushInOrder(r) ==
  /\ r.pushCalled => r.commitCalled /\ r.commit_hash # None /\ r.push = "True"
  /\ r.push = "False" => ~r.pushCalled

\* C22: git push is attempted in a run only after commit_sync returned in
\* that run, at most once (the run is never about to push after it pushed),
\* and never when sync_now was called with push=False.
C22_PushOnlyAfterCommit ==
  /\ PushInOrder(run)
  /\ pc = "push" => ~run.pushCalled /\ run.commit_hash # None /\ run.push = "True"
  /\ \A k \in Runs : PushInOrder(results[k].run)

\* A run that pushed, and a run that committed with push suppressed
C22_Witness ==
  /\ \E k \in Runs : results[k].run.pushCalled
  /\ \E k \in Runs : /\ results[k].run.push = "False"
                     /\ results[k].run.commit_hash # None
                     /\ CommitsOf(k) = 1

\* The candidates of the locals r that have an outcome
Outcomes(r) == r.pages_synced + r.pages_skipped + CountOf(r.errors, "page")

\* C23: when the listing returned N candidates, has_changes and commit_sync
\* are reached only with synced + skipped + per-page errors = N; inside the
\* loop the candidates before the current one have one outcome each.
C23_EveryCandidateOneOutcome ==
  /\ run.listed /\ pc \in {"changes", "commit", "push", "log"} =>
       Outcomes(run) = Len(run.pages)
  /\ run.listed /\ pc \in {"fetch", "check", "write", "upsert"} =>
       Outcomes(run) = run.i - 1
  /\ \A k \in Runs :
       results[k].run.listed /\ results[k].run.changesSeen # "unchecked" =>
         Outcomes(results[k].run) = Len(results[k].run.pages)

\* Commits of two candidates: one synced and one failed, one synced and one
\* skipped
C23_Witness ==
  /\ \E k \in Runs : /\ results[k].run.commitCalled
                     /\ Len(results[k].run.pages) = 2
                     /\ results[k].run.pages_synced = 1
                     /\ CountOf(results[k].run.errors, "page") = 1
  /\ \E k \in Runs : /\ results[k].run.commitCalled
                     /\ Len(results[k].run.pages) = 2
                     /\ results[k].run.pages_synced = 1
                     /\ results[k].run.pages_skipped = 1

\* ------------------------------------------------------------ run-sync
\* A variant of main that exits with 0 whenever sync_now returned
mainZeroOnReturn(out) == IF out.returned THEN 0 ELSE 1

\* main, the run-sync branch (lines 438-463): the exit code of the process
\* for the outcome out of sync_now: sys.exit(0 if result.success else 1), and
\* sys.exit(1) in the handler of an exception that left sync_now
main(out) ==
  IF out.returned THEN (IF out.result.success THEN 0 ELSE 1) ELSE 1

PartialRun(k) ==
  /\ results[k].returned
  /\ results[k].run.listed
  /\ results[k].run.exc = ""
  /\ results[k].run.errors # <<>>
  /\ \A e \in Range(results[k].run.errors) : e.kind = "page"

\* C25: a run with isolated per-page errors exits with the success code; only
\* a run that failed entirely exits with a failure code.
C25_PartialExitsZero ==
  \A k \in Runs : PartialRun(k) => main(results[k]) = 0


\* What C26 compares of a SyncResult: the success flag, the counts, the
\* commit identifier and the number of errors
Report(result) ==
  <<result.success, result.pages_synced, result.pages_skipped,
    result.commit_hash, Len(result.errors)>>

\* The run at k was aborted: an exception reached the handler of sync_now,
\* which returned the SyncResult of lines 180-188
AbortedRun(k) == results[k].returned /\ results[k].run.exc # ""

\* C26: no run with isolated per-page failures returns a SyncResult whose
\* success flag, counts, commit identifier and number of errors all equal
\* those of the SyncResult of an aborted run: neither those of an aborted run
\* of the same behaviour nor those of the result the handler returns for any
\* escaping fault.
C26_PartialDiffersFromAborted ==
  \A k \in Runs :
    PartialRun(k) =>
      /\ \A j \in Runs :
           AbortedRun(j) => Report(results[k].result) # Report(results[j].result)
      /\ \A e \in EscapingFaults :
           Report(results[k].result) #
             Report(SyncResult(FALSE, 0, 0, <<e>>, None, 0))


\* ----------------------------------------------------- storage faults
\* C27: a write operation of the record store (upsert_page, mark_synced,
\* update_sync_status, delete_page, log_sync) that meets a storage fault
\* leaves the pages table and the sync log exactly as before the call and
\* raises; the tables the next call finds are those the last call left.
C27_WritesAllOrNothing ==
  /\ \A k \in Calls :
       /\ results[k].fault # "none" =>
            /\ IsExc(results[k].out)
            /\ results[k].after = results[k].before
            /\ results[k].logAfter = results[k].logBefore
       /\ results[k].fault = "none" =>
            /\ results[k].out = Ret(None)
            /\ results[k].after = results[k].pending.pages
            /\ results[k].logAfter = results[k].pending.log
       /\ k > 1 => /\ results[k].before = results[k - 1].after
                   /\ results[k].logBefore = results[k - 1].logAfter
  /\ results # <<>> => /\ store = results[Len(results)].after
                       /\ log = results[Len(results)].logAfter

\* A commit that failed on a statement that would have changed an existing
\* row, after a call that succeeded
C27_Witness ==
  \E k \in Calls :
    /\ k > 1
    /\ results[k].fault = "commit"
    /\ results[k].op \in {"upsert_page", "delete_page", "mark_synced",
                          "update_sync_status"}
    /\ results[k].pending.pages # results[k].before
    /\ results[k].after = results[k].before
    /\ store # [id \in IdUniverse |-> Absent]


\* An exception is raised in needs_sync or in upsert_page for the candidate
\* at run.i: by the storage, or by the converter of a stored timestamp
StoreFaultInLoop ==
  /\ pc \in {"check", "upsert"}
  /\ Len(run'.faults) = Len(run.faults) + 1

\* An exception is raised in get_last_sync_time
StoreFaultOutsideLoop ==
  /\ pc = "since"
  /\ Len(run'.faults) = Len(run.faults) + 1

\* What C28 says of the two steps
StoreFaultHandled ==
  /\ StoreFaultInLoop =>
       /\ run'.errors =
            Append(run.errors, [kind |-> "page", id |-> run.pages[run.i].id])
       /\ run'.pages_synced = run.pages_synced
       /\ run'.pages_skipped = run.pages_skipped
       /\ run'.exc = ""
       /\ run'.i = run.i + 1
       /\ pc' = IF run.i < Len(run.pages) THEN "fetch" ELSE "changes"
       /\ store' = store
  /\ StoreFaultOutsideLoop =>
       /\ run'.exc # ""
       /\ pc' = "hlog"

\* The run at k failed as a whole with one 'error' entry in the log
FailedWithErrorEntry(k) ==
  /\ results[k].returned
  /\ ~results[k].result.success
  /\ results[k].result.pages_synced = 0
  /\ results[k].result.commit_hash = None
  /\ ~results[k].run.listed
  /\ CommitsOf(k) = 0
  /\ Len(Entries(k)) = 1
  /\ Entries(k)[1].status = "error"

\* C28: a record store fault raised in needs_sync or upsert_page inside the
\* loop is recorded as one error for that page, the page is counted neither
\* as synced nor as skipped, and the loop goes on with the next candidate; a
\* store fault raised by get_last_sync_time outside the loop makes the run
\* fail as a whole with an 'error' log entry.
C28_StoreFaults ==
  /\ [][StoreFaultHandled]_vars
  /\ [](\A k \in Runs :
          results[k].run.faults = <<"since">> => FailedWithErrorEntry(k))

\* A run with a store fault in the loop after a synced page, and a run whose
\* get_last_sync_time failed
C28_Witness ==
  /\ \E k \in Runs :
       /\ results[k].run.faults # <<>>
       /\ results[k].run.faults[1] \in {"check", "upsert", "ValueError", "TypeError"}
       /\ results[k].run.pages_synced = 1
       /\ CountOf(results[k].run.errors, "page") = 1
       /\ Len(results[k].run.pages) = 2
  /\ \E k \in Runs :
       results[k].run.faults = <<"since">> /\ FailedWithErrorEntry(k)


\* ---------------------------------------------------------------- phases
\* The listing step of the call with locals r failed
ListingFailed(r) ==
  \E n \in 1..Len(r.faults) :
    r.faults[n] \in {"NotionClientError", "AttributeError", "list"}

\* The phase of the current run: its position in sync_now
Phase ==
  CASE pc = "idle" /\ run.no = 0 -> "NotStarted"
    [] pc = "idle" /\ run.no > 0 /\ run.exc = "" -> "Done"
    [] pc \in {"since", "list"} -> "ListingCandidates"
    [] pc \in {"fetch", "check", "write", "upsert"} -> "ProcessingPages"
    [] pc \in {"changes", "commit", "push"} -> "Committing"
    [] pc = "log" -> "LoggingResult"
    [] OTHER -> IF ListingFailed(run) THEN "AbortedListing"
                ELSE "AbortedUnexpected"

PhaseRank(phase) ==
  CASE phase = "NotStarted" -> 0
    [] phase = "ListingCandidates" -> 1
    [] phase = "ProcessingPages" -> 2
    [] phase = "Committing" -> 3
    [] phase = "LoggingResult" -> 4
    [] phase = "Done" -> 5
    [] OTHER -> 6

\* A step of one run never goes back to an earlier phase
PhasesInOrder ==
  run'.no = run.no => PhaseRank(Phase') >= PhaseRank(Phase)

\* C29: a run moves through NotStarted, ListingCandidates, ProcessingPages,
\* Committing, LoggingResult, Done in that order; a run whose listing step
\* failed is never in ProcessingPages or Committing (no page is fetched, no
\* commit or push is attempted) and ends in AbortedListing.
C29_PhasesAndAbortedListing ==
  /\ [][PhasesInOrder]_vars
  /\ [](/\ ListingFailed(run) =>
             Phase \in {"ListingCandidates", "AbortedListing"}
        /\ \A k \in Runs :
             ListingFailed(results[k].run) =>
               /\ results[k].run.exc # ""
               /\ results[k].run.i = 0
               /\ results[k].run.changesSeen = "unchecked"
               /\ ~results[k].run.commitCalled
               /\ ~results[k].run.pushCalled)


\* ------------------------------------------------- edits during a run
\* C30: when a run without fault has completed and the remote pages were not
\* edited since, the last_edited of every record is the instant of the
\* latest edit the remote source reports for the page, also when the page was
\* edited between the listing and the fetch of its content.  (A page whose
\* last_edited_time the API leaves out has no such instant.)
C30_LastEditedIsLatest ==
  pc = "idle" /\ results # <<>> =>
    LET last == results[Len(results)] IN
    last.returned /\ last.run.faults = <<>> =>
      \A id \in RemoteIds(remote) :
        store[id] # Absent /\ remote[id].stamp # "absent" =>
          store[id].last_edited.t = remote[id].edited


\* ------------------------------------------------------ edits and retries
\* The call at k began after the last edit of the page id
BeganAfterEdit(k, id) == remote[id].edited < NowList(results[k].run)

\* C31: a remote edit is not lost, also when it is made while a run is in
\* progress after the page's content was fetched: once a run without
\* environment fault that began after the edit has completed, the page's file
\* and the content_hash of its record match the remote content (the
\* filenames of the pages being distinct).
C31_NoRemoteEditLost ==
  (pc = "idle" /\ results # <<>> /\ NamesDiffer) =>
    LET k == Len(results) IN
    \A id \in RemoteIds(remote) :
      (/\ remote[id].edited > 0
       /\ BeganAfterEdit(k, id)
       /\ results[k].run.injected = 0)
      => Converged(id)


\* The ids of the candidates of the call with locals r
Candidates(r) == {r.pages[n].id : n \in 1..Len(r.pages)}

\* What C32 says of the call at k and the call after it, with locals nxt
RetriedBy(k, nxt) ==
  \A e \in Range(results[k].run.errors) :
    e.kind = "page" =>
      /\ nxt.since = None
      /\ nxt.listed => e.id \in Candidates(nxt)
      /\ nxt.listed /\ nxt.changesSeen # "unchecked" =>
           Outcomes(nxt) = Len(nxt.pages)

\* C32: a run with an error logs 'partial' or 'error', never 'success'; the
\* run after a run in which a page failed reads no later bound from the log
\* (its since is None), so that, its listing succeeding, the page is a
\* candidate again and is given an outcome again.
C32_FailedPageRetried ==
  /\ \A k \in Runs :
       /\ results[k].run.errors # <<>> \/ results[k].run.exc # "" =>
            \A e \in Range(Entries(k)) : e.status \in {"partial", "error"}
       /\ k + 1 \in Runs => RetriedBy(k, results[k + 1].run)
  /\ pc \notin {"idle", "since"} /\ run.no > 1 => RetriedBy(run.no - 1, run)

\* A page failed in one run and was synced by the next
C32_Witness ==
  \E k \in Runs :
    /\ k + 1 \in Runs
    /\ \E e \in Range(results[k].run.errors) :
         /\ e.kind = "page"
         /\ store[e.id] # Absent
         /\ e.id \in Candidates(results[k + 1].run)
    /\ results[k].run.pages_synced = 0
    /\ results[k + 1].run.pages_synced >= 1
    /\ results[k + 1].returned


\* ------------------------------------------------------------ page frames
\* The candidate at run.i is skipped, or its content fetch fails, in this
\* step
SkippedOrFetchFailed ==
  \/ /\ pc = "check"
     /\ run'.pages_skipped = run.pages_skipped + 1
  \/ /\ pc = "fetch"
     /\ Len(run'.faults) = Len(run.faults) + 1

FileOfRecord(rec) ==
  LET f == Filename([title |-> rec.title, id |-> rec.notion_id]) IN
  IF f \in DOMAIN files /\ files[f].notion_id = rec.notion_id THEN {f} ELSE {}

\* C34: at the end of every run the content_hash of every record is the
\* digest of the content of the page's local file, as the sync wrote it last,
\* also when upsert_page failed after the file was written.
C34_HashMatchesFile ==
  pc = "idle" /\ results # <<>> =>
    \A id \in IdUniverse :
      store[id] # Absent =>
        \A f \in FileOfRecord(store[id]) :
          store[id].content_hash = compute_hash(files[f].body)


\* The requests of a paginated call are for pairwise different result pages
\* (a result page is named by the cursor of its request, the first by none)
EachPageOnce(requests) ==
  \A a, b \in 1..Len(requests) : a # b => requests[a] # requests[b]

\* Every response that has_more set carries a cursor, and no two of them the
\* same one
FreshCursors(script) ==
  \A a \in 1..Len(script) :
    script[a].has_more =>
      /\ script[a].next_cursor # None
      /\ \A b \in 1..Len(script) :
           (b # a /\ script[b].has_more) =>
             script[b].next_cursor # script[a].next_cursor

InPaging == pc \in {"query", "blocks", "paged"}

\* sync_now and the paginated loops end, and a loop makes one request for
\* each response up to the first without has_more
EveryCallEnds ==
  /\ (pc \notin {"idle", "paged"}) ~> (pc \in {"idle", "paged"})
  /\ [](InPaging => Len(run.requests) <= Len(remote))
  /\ [](pc = "paged" /\ ~IsExc(run.out) =>
          /\ ~remote[Len(run.requests)].has_more
          /\ \A n \in 1..(Len(run.requests) - 1) : remote[n].has_more)

\* C35 as stated: every sync_now invocation ends for every candidate list and
\* every pattern of faults, and the paginated listing and content loops end
\* for every sequence of responses whose has_more is eventually false,
\* fetching each result page at most once.
C35_TerminatesEachPageOnce ==
  /\ EveryCallEnds
  /\ [](InPaging => EachPageOnce(run.requests))

\* C35, amended: every sync_now invocation ends for every candidate list and
\* every pattern of faults, and the paginated listing and content loops end
\* for every sequence of responses whose has_more is eventually false; they
\* fetch each result page at most once when every response with has_more set
\* carries a next_cursor that no other response of the call carries.
C35_TerminatesFreshPagesOnce ==
  /\ EveryCallEnds
  /\ [](InPaging /\ FreshCursors(remote) => EachPageOnce(run.requests))

\* A paginated call that returned after MaxResponses requests, every cursor
\* it was given a fresh one
C35_Witness ==
  /\ pc = "paged"
  /\ ~IsExc(run.out)
  /\ Len(run.requests) = MaxResponses
  /\ FreshCursors(remote)


\* C36: for every pages_changed value n and direction, the page count that
\* get_last_sync_commit recovers from a commit whose message was built by
\* commit_sync(n, direction) equals n, so get_status reports the page count
\* of the last sync commit.
C36_StatusReportsPageCount ==
  \A k \in 1..Len(results) :
    (pc = "shell" /\ results[k].after >= 1) =>
      /\ get_last_sync_commit(SubSeq(commits, 1, results[k].after)).pages_count
           = commits[results[k].after].pages
      /\ results[k].status.last_commit.pages = commits[results[k].after].pages
====
